---- MODULE Spec2Model ----
(***************************************************************************)
(* Model of the reconciliation path of the NGINX dataplane configurer:     *)
(* NGINXConfigurer.syncIngress / fullReconfiguration / updateConfiguration *)
(* (src/test/e2e/annotations/modsecurity.go, lines 299-506).               *)
(*                                                                         *)
(* Each caller p is a goroutine that calls syncIngress(cfg).  The steps of *)
(* fullReconfiguration are separate actions, so that other callers can     *)
(* arrive (and block on configureLock) between any two of them.            *)
(* Collaborators whose code is outside the modelled file (certificate      *)
(* store, template writer, nginx binary, Lua endpoint) succeed or fail     *)
(* nondeterministically.                                                   *)
(*                                                                         *)
(* The module also models the balancing-mode updater script of             *)
(* src/internal/ingress/controller/config/config.go (updateMultipleBackends,*)
(* setBackendsTo, migrateInstances, getResourceName) and the CORS          *)
(* annotation parser of src/pkg/ingress/annotations/cors/main.go (Parse,   *)
(* CorsConfig.Equal), each under a specification of its own.               *)
(***************************************************************************)
EXTENDS Integers, Sequences, FiniteSets, TLC

\* ------------------------------------------------------------------ bounds
\* Largest GeneratedTime a producer submits.
MaxGen == 2
\* n.cfg.DynamicConfigurationRetries
DynamicConfigurationRetries == 1

\* Values of Cfg.Checksum: the code only compares them (0 is the zero value "").
Checksums == {0, 1}
\* Values of Servers and of Backends: the code only compares them with each
\* other and with the empty list (0).
ServerLists == {0, 1}
BackendLists == {0, 1}
\* PemSHA values of default certificates: the code only compares them (0 is
\* the nil pointer, no default certificate).
Certs == {1, 2}

\* The concurrent callers of syncIngress.
Procs == {"p1", "p2"}

\* ------------------------------------------------------------- data model
\* config.TemplateConfig, reduced to the fields fullReconfiguration reads.
\* DefaultSSLCertificate: 0 is nil, n > 0 is a certificate with PemSHA n.
\* DHParam: DHParamFile # "" and DHParamContent # nil.
TemplateConfig(g, c, b, s, crt, dh) ==
    [GeneratedTime |-> g, Checksum |-> c, Backends |-> b, Servers |-> s,
     DefaultSSLCertificate |-> crt, DHParam |-> dh]

\* The zero value &config.TemplateConfig{}.
ZeroTemplateConfig == TemplateConfig(0, 0, 0, 0, 0, FALSE)

\* A *TemplateConfig is a sequence of length at most one: <<>> is nil.
NilTemplateConfig == <<>>

\* Snapshots of a deployment without TLS material whose settings do not change:
\* the servers and the backends vary.
RoutingSnapshots ==
    { TemplateConfig(g, 0, b, s, 0, FALSE) :
        g \in 1..MaxGen, b \in BackendLists, s \in ServerLists }

\* Snapshots of a deployment with a default certificate and DH parameters
\* whose routing does not change: the source checksum and the certificate vary.
TlsSnapshots ==
    { TemplateConfig(g, c, 0, 0, crt, TRUE) :
        g \in 1..MaxGen, c \in Checksums, crt \in Certs }

\* configFromTemplate: *TemplateConfig -> *ingress.Configuration
configFromTemplate(tmpl) ==
    IF tmpl = NilTemplateConfig
    THEN [Backends |-> 0, Servers |-> 0]
    ELSE [Backends |-> tmpl[1].Backends, Servers |-> tmpl[1].Servers]

\* &ingress.Configuration{}
EmptyConfiguration == [Backends |-> 0, Servers |-> 0]

\* hashstructure.Hash(newcfg, ...), line 359: a fingerprint of the routing
\* configuration, never 0 here (0 stands for "not computed").
Hash(c) == 1 + 2 * c.Backends + c.Servers

\* utilingress.IsDynamicConfigurationEnough: backends may change freely, the
\* servers (listeners, certificates in use, passthrough services) may not.
IsDynamicConfigurationEnough(newcfg, oldcfg) == newcfg.Servers = oldcfg.Servers

\* n.t.Write(*cfg): the rendered nginx.conf.  The upstream endpoints are not
\* part of the file (they are pushed dynamically); GeneratedTime identifies the
\* snapshot the content was rendered from.
RenderTemplate(cfg) ==
    [Checksum |-> cfg.Checksum, Servers |-> cfg.Servers,
     GeneratedTime |-> cfg.GeneratedTime, complete |-> TRUE]

\* The nginx.conf shipped with the image, before any reconciliation.
InitialCfgFile ==
    [Checksum |-> 0, Servers |-> 0, GeneratedTime |-> 0, complete |-> TRUE]

GenOf(tmpl) == IF tmpl = NilTemplateConfig THEN 0 ELSE tmpl[1].GeneratedTime

\* ------------------------------------------------------------------ state
VARIABLES
    configureLock,   \* n.configureLock: TRUE when held
    templateConfig,  \* n.templateConfig, the last-applied snapshot (pointer)
    cfgFile,         \* content of cfgPath (the live nginx.conf)
    certFile,        \* PemSHA of the default certificate on disk (0: none)
    dhFile,          \* TRUE once the DH parameter file was written
    crashed,         \* the process died of an unrecovered panic
    pc,              \* position of each caller
    cfg,             \* the argument of each caller (<<>> when not calling)
    oldcfg,          \* local oldcfg of each caller
    content,         \* local content of updateConfiguration (<<>> when unset)
    err,             \* the error a step of the caller returned ("" is nil)
    retriesRemaining,\* local retriesRemaining of each caller
    hash,            \* local hash of each caller (0: not computed)
    outcome,         \* exit path taken by the caller ("" while running)
    log,             \* collaborator calls made by the caller in this call
    pre,             \* state the caller found when it acquired the lock
    receiving,       \* the consumer of n.GRPCClient.EventCh still receives
    step,            \* position of the balancing-mode updater script
    targetBalancingMode, \* its argument balancing_mode
    backendServices, \* GCE: the backends of each backend service
    pending,         \* backend services setBackendsTo has still to update
    tempIGs,         \* GCE: zones in which the temporary instance group exists
    members,         \* GCE: the instance groups each instance is a member of
    migrate,         \* position and bookkeeping of migrateInstances
    fnArgs,          \* arguments of the library function called (<<>>: none)
    fnResult         \* what that call returned (<<>>: not returned)

shared == <<configureLock, templateConfig, cfgFile, certFile, dhFile, crashed>>
locals == <<pc, cfg, oldcfg, content, err, retriesRemaining, hash, outcome, log, pre>>
\* The state of the updater script and of the library functions.
scriptVars == <<step, targetBalancingMode, backendServices, pending, tempIGs,
                members, migrate, fnArgs, fnResult>>
\* What fullReconfiguration does not write.
outside == <<receiving, scriptVars>>
vars == <<configureLock, templateConfig, cfgFile, certFile, dhFile, crashed,
          pc, cfg, oldcfg, content, err, retriesRemaining, hash, outcome, log, pre,
          receiving, step, targetBalancingMode, backendServices, pending, tempIGs,
          members, migrate, fnArgs, fnResult>>

NoPre == <<>>

Snapshot == [templateConfig |-> templateConfig, cfgFile |-> cfgFile,
             certFile |-> certFile, dhFile |-> dhFile]

\* The backend services (k8s-be-*), the zones of the region and the instances
\* the updater script finds.
BackendServiceNames == {"k8s-be-1", "k8s-be-2"}
Zones == {"zone-a", "zone-b"}
Instances == <<[Name |-> "i1", Zone |-> "zone-a"], [Name |-> "i2", Zone |-> "zone-b"]>>

\* No migration in progress.
MigrateIdle ==
    [from |-> "", to |-> "", idx |-> 0, phase |-> "", removed |-> "",
     done |-> [k \in 1..Len(Instances) |-> 0]]

\* The updater script is not running.
UpdaterIdle ==
    /\ step = "none"
    /\ targetBalancingMode = ""
    /\ backendServices = [b \in BackendServiceNames |-> {}]
    /\ pending = {}
    /\ tempIGs = {}
    /\ members = [k \in 1..Len(Instances) |-> {}]
    /\ migrate = MigrateIdle

\* The updater script is not running and no library function is being called.
ScriptsIdle ==
    /\ UpdaterIdle
    /\ fnArgs = <<>>
    /\ fnResult = <<>>

\* The configurer right after its construction, nobody calling.
ConfigurerIdle(tc) ==
    /\ configureLock = FALSE
    /\ templateConfig = tc
    /\ cfgFile = InitialCfgFile
    /\ certFile = 0
    /\ dhFile = FALSE
    /\ crashed = FALSE
    /\ pc = [p \in Procs |-> "idle"]
    /\ cfg = [p \in Procs |-> <<>>]
    /\ oldcfg = [p \in Procs |-> EmptyConfiguration]
    /\ content = [p \in Procs |-> <<>>]
    /\ err = [p \in Procs |-> ""]
    /\ retriesRemaining = [p \in Procs |-> 0]
    /\ hash = [p \in Procs |-> 0]
    /\ outcome = [p \in Procs |-> ""]
    /\ log = [p \in Procs |-> <<>>]
    /\ pre = [p \in Procs |-> NoPre]
    /\ receiving = TRUE

InitWith(tc) == ConfigurerIdle(tc) /\ ScriptsIdle

\* The constructor of NGINXConfigurer is not part of the modelled file: the
\* orchestrator starts either with no last-applied snapshot (nil) or with the
\* zero TemplateConfig.
Init == \E tc \in {NilTemplateConfig, <<ZeroTemplateConfig>>} : InitWith(tc)


\* ---------------------------------------------------------------- helpers
Cfg(p) == cfg[p][1]

Logged(p, entries) == log' = [log EXCEPT ![p] = log[p] \o entries]

Goto(p, loc) == pc' = [pc EXCEPT ![p] = loc]

Return(p, how) ==
    /\ pc' = [pc EXCEPT ![p] = "ret"]
    /\ outcome' = [outcome EXCEPT ![p] = how]

\* Mutant of IsStale: an equal generation is let through.
IsStale_Strict(tc, c) == tc[1].GeneratedTime > c.GeneratedTime

\* Mutant of IsStale: the staleness check is missing.
IsStale_Never(tc, c) == FALSE

\* Mutant of IsStale: the next generation is rejected too.
IsStale_OffByOne(tc, c) == tc[1].GeneratedTime + 1 >= c.GeneratedTime

\* line 317: n.templateConfig.GeneratedTime >= cfg.GeneratedTime
IsStale(tc, c) == tc[1].GeneratedTime >= c.GeneratedTime

\* lines 327-328: the default certificate has to be (re)written
NeedsCertWrite(tc, c) ==
    /\ c.DefaultSSLCertificate # 0
    /\ \/ tc[1].DefaultSSLCertificate = 0
       \/ tc[1].DefaultSSLCertificate # c.DefaultSSLCertificate

\* Mutant of ConfigMapChange: the source checksum is not looked at.
ConfigMapChange_Never(tc, c) == FALSE

\* lines 347-354: configMapChange
ConfigMapChange(tc, c) ==
    /\ tc # NilTemplateConfig
    /\ tc[1].Checksum # c.Checksum

\* Mutant of NeedsReload: the whole configuration is compared, backends included.
NeedsReload_ComparesBackends(tc, c, old) ==
    \/ ConfigMapChange(tc, c)
    \/ configFromTemplate(<<c>>) # old

\* Mutant of NeedsReload: every reconciliation reloads.
NeedsReload_Always(tc, c, old) == TRUE

\* line 356: a backend reload is required
NeedsReload(tc, c, old) ==
    \/ ConfigMapChange(tc, c)
    \/ ~IsDynamicConfigurationEnough(configFromTemplate(<<c>>), old)

\* ---------------------------------------------------------------- actions
\* syncIngress(cfg), lines 303-305: a caller arrives with a snapshot.
SyncIngress(p, Inputs) ==
    /\ ~crashed
    /\ UNCHANGED outside
    /\ pc[p] = "idle"
    /\ \E c \in Inputs : cfg' = [cfg EXCEPT ![p] = <<c>>]
    /\ Goto(p, "lock")
    /\ UNCHANGED <<shared, oldcfg, content, err, retriesRemaining, hash, outcome, log, pre>>

\* Mutant of Lock: the lock is taken without waiting for it to be free.
Lock_NoGuard(p) ==
    /\ ~crashed
    /\ UNCHANGED outside
    /\ pc[p] = "lock"
    /\ configureLock' = TRUE
    /\ pre' = [pre EXCEPT ![p] = <<Snapshot>>]
    /\ Goto(p, "check")
    /\ UNCHANGED <<templateConfig, cfgFile, certFile, dhFile, crashed,
                   cfg, oldcfg, content, err, retriesRemaining, hash, outcome, log>>

\* line 309: n.configureLock.Lock()
Lock(p) ==
    /\ ~crashed
    /\ UNCHANGED outside
    /\ pc[p] = "lock"
    /\ ~configureLock
    /\ configureLock' = TRUE
    /\ pre' = [pre EXCEPT ![p] = <<Snapshot>>]
    /\ Goto(p, "check")
    /\ UNCHANGED <<templateConfig, cfgFile, certFile, dhFile, crashed,
                   cfg, oldcfg, content, err, retriesRemaining, hash, outcome, log>>

\* Mutant of CheckStale: oldcfg is derived from the snapshot passed in.
CheckStale_OldFromNew(p) ==
    /\ ~crashed
    /\ UNCHANGED outside
    /\ pc[p] = "check"
    /\ Logged(p, <<"SetSSLExpireTime", "SetSSLInfo">>)
    /\ IF templateConfig = NilTemplateConfig
       THEN /\ Goto(p, "panic")
            /\ outcome' = [outcome EXCEPT ![p] = "Panic"]
            /\ configureLock' = FALSE
            /\ crashed' = TRUE
            /\ UNCHANGED oldcfg
       ELSE IF IsStale(templateConfig, Cfg(p))
            THEN /\ Return(p, "Stale")
                 /\ UNCHANGED <<configureLock, crashed, oldcfg>>
            ELSE /\ Goto(p, "cert")
                 /\ oldcfg' = [oldcfg EXCEPT ![p] = configFromTemplate(cfg[p])]
                 /\ UNCHANGED <<configureLock, crashed, outcome>>
    /\ UNCHANGED <<templateConfig, cfgFile, certFile, dhFile,
                   cfg, content, err, retriesRemaining, hash, pre>>

\* lines 312-325: SSL metrics, the staleness check, newcfg and oldcfg.
\* Reading n.templateConfig.GeneratedTime through a nil pointer panics: the
\* deferred Unlock runs and the process dies.
CheckStale(p) ==
    /\ ~crashed
    /\ UNCHANGED outside
    /\ pc[p] = "check"
    /\ Logged(p, <<"SetSSLExpireTime", "SetSSLInfo">>)
    /\ IF templateConfig = NilTemplateConfig
       THEN /\ Goto(p, "panic")
            /\ outcome' = [outcome EXCEPT ![p] = "Panic"]
            /\ configureLock' = FALSE
            /\ crashed' = TRUE
            /\ UNCHANGED oldcfg
       ELSE IF IsStale(templateConfig, Cfg(p))
            THEN /\ Return(p, "Stale")
                 /\ UNCHANGED <<configureLock, crashed, oldcfg>>
            ELSE /\ Goto(p, "cert")
                 /\ oldcfg' = [oldcfg EXCEPT ![p] = configFromTemplate(templateConfig)]
                 /\ UNCHANGED <<configureLock, crashed, outcome>>
    /\ UNCHANGED <<templateConfig, cfgFile, certFile, dhFile,
                   cfg, content, err, retriesRemaining, hash, pre>>

\* lines 327-338: ssl.StoreSSLCertOnDisk for a new default certificate.
SyncCert(p) ==
    /\ ~crashed
    /\ UNCHANGED outside
    /\ pc[p] = "cert"
    /\ IF NeedsCertWrite(templateConfig, Cfg(p))
       THEN \E ok \in BOOLEAN :
              /\ Logged(p, <<"StoreSSLCertOnDisk">>)
              /\ IF ok
                 THEN /\ certFile' = Cfg(p).DefaultSSLCertificate
                      /\ Goto(p, "dh")
                      /\ UNCHANGED <<err, outcome>>
                 ELSE /\ err' = [err EXCEPT ![p] = "StoreSSLCertOnDisk"]
                      /\ Return(p, "CertificateWriteFailed")
                      /\ UNCHANGED certFile
       ELSE /\ Goto(p, "dh")
            /\ UNCHANGED <<certFile, err, outcome, log>>
    /\ UNCHANGED <<configureLock, templateConfig, cfgFile, dhFile, crashed,
                   cfg, oldcfg, content, retriesRemaining, hash, pre>>

\* Mutant of SyncDHParam: the error of AddOrUpdateDHParam is logged but the
\* function does not return.
SyncDHParam_NoReturn(p) ==
    /\ ~crashed
    /\ UNCHANGED outside
    /\ pc[p] = "dh"
    /\ IF Cfg(p).DHParam
       THEN \E ok \in BOOLEAN :
              /\ Logged(p, <<"AddOrUpdateDHParam">>)
              /\ Goto(p, "decide")
              /\ IF ok
                 THEN /\ dhFile' = TRUE
                      /\ UNCHANGED err
                 ELSE /\ err' = [err EXCEPT ![p] = "AddOrUpdateDHParam"]
                      /\ UNCHANGED dhFile
       ELSE /\ Goto(p, "decide")
            /\ UNCHANGED <<dhFile, err, log>>
    /\ UNCHANGED <<configureLock, templateConfig, cfgFile, certFile, crashed,
                   cfg, oldcfg, content, retriesRemaining, hash, outcome, pre>>

\* lines 340-345: ssl.AddOrUpdateDHParam
SyncDHParam(p) ==
    /\ ~crashed
    /\ UNCHANGED outside
    /\ pc[p] = "dh"
    /\ IF Cfg(p).DHParam
       THEN \E ok \in BOOLEAN :
              /\ Logged(p, <<"AddOrUpdateDHParam">>)
              /\ IF ok
                 THEN /\ dhFile' = TRUE
                      /\ Goto(p, "decide")
                      /\ UNCHANGED <<err, outcome>>
                 ELSE /\ err' = [err EXCEPT ![p] = "AddOrUpdateDHParam"]
                      /\ Return(p, "DHParamWriteFailed")
                      /\ UNCHANGED dhFile
       ELSE /\ Goto(p, "decide")
            /\ UNCHANGED <<dhFile, err, outcome, log>>
    /\ UNCHANGED <<configureLock, templateConfig, cfgFile, certFile, crashed,
                   cfg, oldcfg, content, retriesRemaining, hash, pre>>

\* lines 347-363: reload or dynamic reconfiguration only.
Decide(p) ==
    /\ ~crashed
    /\ UNCHANGED outside
    /\ pc[p] = "decide"
    /\ IF NeedsReload(templateConfig, Cfg(p), oldcfg[p])
       THEN /\ hash' = [hash EXCEPT ![p] = Hash(configFromTemplate(cfg[p]))]
            /\ Goto(p, "render")
       ELSE /\ Goto(p, "firstsync")
            /\ UNCHANGED hash
    /\ UNCHANGED <<shared, cfg, oldcfg, content, err, retriesRemaining, outcome, log, pre>>

\* Mutant of Render: the rendered content goes to the live path without the
\* dry run.
Render_SkipsDryRun(p) ==
    /\ ~crashed
    /\ UNCHANGED outside
    /\ pc[p] = "render"
    /\ \E ok \in BOOLEAN :
         /\ Logged(p, <<"t.Write">>)
         /\ IF ok
            THEN /\ content' = [content EXCEPT ![p] = <<RenderTemplate(Cfg(p))>>]
                 /\ Goto(p, "write")
                 /\ UNCHANGED err
            ELSE /\ err' = [err EXCEPT ![p] = "t.Write"]
                 /\ Goto(p, "updateFailed")
                 /\ UNCHANGED content
    /\ UNCHANGED <<shared, cfg, oldcfg, retriesRemaining, hash, outcome, pre>>

\* updateConfiguration, lines 444-457: createOpentracingCfg and n.t.Write.
Render(p) ==
    /\ ~crashed
    /\ UNCHANGED outside
    /\ pc[p] = "render"
    /\ \E ok \in BOOLEAN :
         /\ Logged(p, <<"t.Write">>)
         /\ IF ok
            THEN /\ content' = [content EXCEPT ![p] = <<RenderTemplate(Cfg(p))>>]
                 /\ Goto(p, "test")
                 /\ UNCHANGED err
            ELSE /\ err' = [err EXCEPT ![p] = "t.Write"]
                 /\ Goto(p, "updateFailed")
                 /\ UNCHANGED content
    /\ UNCHANGED <<shared, cfg, oldcfg, retriesRemaining, hash, outcome, pre>>

\* n.testTemplate is not among the sources at hand.  As specified, it writes
\* the rendered content to a temporary file and runs the validator on that
\* file: the live artifact keeps its content.
testTemplate(live, rendered) == live

\* Mutant of TestTemplate: the content is written to the live path and the
\* dry run is made against it.
TestTemplate_LivePath(p) ==
    /\ ~crashed
    /\ UNCHANGED outside
    /\ pc[p] = "test"
    /\ \E ok \in BOOLEAN :
         /\ Logged(p, <<"testTemplate">>)
         /\ cfgFile' = content[p][1]
         /\ IF ok
            THEN /\ Goto(p, "write")
                 /\ UNCHANGED err
            ELSE /\ err' = [err EXCEPT ![p] = "testTemplate"]
                 /\ Goto(p, "updateFailed")
    /\ UNCHANGED <<configureLock, templateConfig, certFile, dhFile, crashed,
                   cfg, oldcfg, content, retriesRemaining, hash, outcome, pre>>

\* updateConfiguration, lines 459-462: n.testTemplate(content), the dry run
\* against a temporary copy of the rendered content.
TestTemplate(p) ==
    /\ ~crashed
    /\ UNCHANGED outside
    /\ pc[p] = "test"
    /\ \E ok \in BOOLEAN :
         /\ Logged(p, <<"testTemplate">>)
         /\ cfgFile' = testTemplate(cfgFile, content[p][1])
         /\ IF ok
            THEN /\ Goto(p, "write")
                 /\ UNCHANGED err
            ELSE /\ err' = [err EXCEPT ![p] = "testTemplate"]
                 /\ Goto(p, "updateFailed")
    /\ UNCHANGED <<configureLock, templateConfig, certFile, dhFile, crashed,
                   cfg, oldcfg, content, retriesRemaining, hash, outcome, pre>>

\* updateConfiguration, lines 464-498: the optional diff through a temporary
\* file and os.WriteFile(cfgPath, content).  os.WriteFile truncates the file
\* and then writes: a failure leaves the old content (the file could not be
\* opened, or the temporary file of the diff could not be created) or a
\* partially written new content.
WriteCfgFile(p) ==
    /\ ~crashed
    /\ UNCHANGED outside
    /\ pc[p] = "write"
    /\ \E r \in {"ok", "unchanged", "partial"} :
         /\ Logged(p, <<"WriteFile">>)
         /\ IF r = "ok"
            THEN /\ cfgFile' = content[p][1]
                 /\ Goto(p, "reload")
                 /\ UNCHANGED err
            ELSE /\ cfgFile' = IF r = "partial"
                               THEN [content[p][1] EXCEPT !.complete = FALSE]
                               ELSE cfgFile
                 /\ err' = [err EXCEPT ![p] = "WriteFile"]
                 /\ Goto(p, "updateFailed")
    /\ UNCHANGED <<configureLock, templateConfig, certFile, dhFile, crashed,
                   cfg, oldcfg, content, retriesRemaining, hash, outcome, pre>>

\* updateConfiguration, lines 500-505: nginx -s reload
Reload(p) ==
    /\ ~crashed
    /\ UNCHANGED outside
    /\ pc[p] = "reload"
    /\ \E ok \in BOOLEAN :
         /\ Logged(p, <<"ExecCommand(-s reload)">>)
         /\ IF ok
            THEN /\ Goto(p, "reloaded")
                 /\ UNCHANGED err
            ELSE /\ err' = [err EXCEPT ![p] = "reload"]
                 /\ Goto(p, "updateFailed")
    /\ UNCHANGED <<shared, cfg, oldcfg, content, retriesRemaining, hash, outcome, pre>>

\* Mutant of UpdateFailed: the failed reload is counted as a reload.
UpdateFailed_CountsReload(p) ==
    /\ ~crashed
    /\ UNCHANGED outside
    /\ pc[p] = "updateFailed"
    /\ Logged(p, <<"IncReloadCount", "ConfigSuccess(false)">>)
    /\ Goto(p, "sendWarning")
    /\ UNCHANGED <<shared, cfg, oldcfg, content, err, retriesRemaining, hash, outcome, pre>>

\* lines 366-369: updateConfiguration returned an error.
UpdateFailed(p) ==
    /\ ~crashed
    /\ UNCHANGED outside
    /\ pc[p] = "updateFailed"
    /\ Logged(p, <<"IncReloadErrorCount", "ConfigSuccess(false)">>)
    /\ Goto(p, "sendWarning")
    /\ UNCHANGED <<shared, cfg, oldcfg, content, err, retriesRemaining, hash, outcome, pre>>

\* Mutant of SendWarning: the return of line 371 is missing.
SendWarning_FallsThrough(p) ==
    /\ ~crashed
    /\ UNCHANGED outside
    /\ pc[p] = "sendWarning"
    /\ receiving    \* EventCh <- msg blocks until the message is received
    /\ Logged(p, <<"Event(Warning,RELOAD)">>)
    /\ Goto(p, "firstsync")
    /\ UNCHANGED <<shared, cfg, oldcfg, content, err, retriesRemaining, hash, outcome, pre>>

\* lines 370-371: the Warning event is sent and the function returns.
SendWarning(p) ==
    /\ ~crashed
    /\ UNCHANGED outside
    /\ pc[p] = "sendWarning"
    /\ receiving    \* EventCh <- msg blocks until the message is received
    /\ Logged(p, <<"Event(Warning,RELOAD)">>)
    /\ Return(p, "ReloadFailed")
    /\ UNCHANGED <<shared, cfg, oldcfg, content, err, retriesRemaining, hash, pre>>

\* Mutant of Reloaded: the Normal event of line 379 is not sent.
Reloaded_NoEvent(p) ==
    /\ ~crashed
    /\ UNCHANGED outside
    /\ pc[p] = "reloaded"
    /\ Logged(p, <<"ConfigSuccess(true)", "IncReloadCount">>)
    /\ Goto(p, "firstsync")
    /\ UNCHANGED <<shared, cfg, oldcfg, content, err, retriesRemaining, hash, outcome, pre>>

\* lines 375-377: updateConfiguration succeeded.
Reloaded(p) ==
    /\ ~crashed
    /\ UNCHANGED outside
    /\ pc[p] = "reloaded"
    /\ Logged(p, <<"ConfigSuccess(true)", "IncReloadCount">>)
    /\ Goto(p, "sendNormal")
    /\ UNCHANGED <<shared, cfg, oldcfg, content, err, retriesRemaining, hash, outcome, pre>>

\* Mutant of SendNormal: the function returns after the reload.
SendNormal_Returns(p) ==
    /\ ~crashed
    /\ UNCHANGED outside
    /\ pc[p] = "sendNormal"
    /\ receiving    \* EventCh <- msg blocks until the message is received
    /\ Logged(p, <<"Event(Normal,RELOAD)">>)
    /\ Return(p, "Success")
    /\ UNCHANGED <<shared, cfg, oldcfg, content, err, retriesRemaining, hash, pre>>

\* line 379: the Normal event is sent.
SendNormal(p) ==
    /\ ~crashed
    /\ UNCHANGED outside
    /\ pc[p] = "sendNormal"
    /\ receiving    \* EventCh <- msg blocks until the message is received
    /\ Logged(p, <<"Event(Normal,RELOAD)">>)
    /\ Goto(p, "firstsync")
    /\ UNCHANGED <<shared, cfg, oldcfg, content, err, retriesRemaining, hash, outcome, pre>>

\* Calls of ConfigureDynamically the caller has made in this reconciliation.
Attempts(p) ==
    Cardinality({i \in 1..Len(log[p]) : log[p][i] = "ConfigureDynamically"})

\* retry.Steps (line 391) less the steps wait.ExponentialBackoff has used: the
\* callback is called once per step.
StepsLeft(p) == (1 + DynamicConfigurationRetries) - Attempts(p)

\* Mutant of FirstSync: the retry budget of the callback is one more than the
\* steps of the backoff.
FirstSync_BudgetAboveSteps(p) ==
    /\ ~crashed
    /\ UNCHANGED outside
    /\ pc[p] = "firstsync"
    /\ IF oldcfg[p] = EmptyConfiguration
       THEN Logged(p, <<"Sleep(1s)">>)
       ELSE UNCHANGED log
    /\ retriesRemaining' = [retriesRemaining EXCEPT ![p] = 2 + DynamicConfigurationRetries]
    /\ UNCHANGED hash
    /\ Goto(p, "push")
    /\ UNCHANGED <<shared, cfg, oldcfg, content, err, outcome, pre>>

\* Mutant of FirstSync: the initial sync is recognised by the generation of
\* the last-applied snapshot instead of its routing configuration.
FirstSync_ByGeneration(p) ==
    /\ ~crashed
    /\ UNCHANGED outside
    /\ pc[p] = "firstsync"
    /\ IF GenOf(templateConfig) = 0
       THEN Logged(p, <<"Sleep(1s)">>)
       ELSE UNCHANGED log
    /\ retriesRemaining' = [retriesRemaining EXCEPT ![p] = 1 + DynamicConfigurationRetries]
    /\ UNCHANGED hash
    /\ Goto(p, "push")
    /\ UNCHANGED <<shared, cfg, oldcfg, content, err, outcome, pre>>

\* lines 382-397: the settle delay of the initial sync, and the retry budget.
FirstSync(p) ==
    /\ ~crashed
    /\ UNCHANGED outside
    /\ pc[p] = "firstsync"
    /\ IF oldcfg[p] = EmptyConfiguration
       THEN Logged(p, <<"Sleep(1s)">>)
       ELSE UNCHANGED log
    /\ retriesRemaining' = [retriesRemaining EXCEPT ![p] = 1 + DynamicConfigurationRetries]
    /\ UNCHANGED hash
    /\ Goto(p, "push")
    /\ UNCHANGED <<shared, cfg, oldcfg, content, err, outcome, pre>>

\* Mutant of Push: the error of the last attempt is swallowed and the function
\* goes on as after a success.
Push_IgnoresFailure(p) ==
    /\ ~crashed
    /\ UNCHANGED outside
    /\ pc[p] = "push"
    /\ \E ok \in BOOLEAN :
         /\ Logged(p, <<"ConfigureDynamically">>)
         /\ IF ok
            THEN /\ Goto(p, "finish")
                 /\ UNCHANGED <<err, retriesRemaining, hash>>
            ELSE /\ retriesRemaining' = [retriesRemaining EXCEPT ![p] = @ - 1]
                 /\ UNCHANGED hash
                 /\ IF retriesRemaining[p] - 1 > 0
                    THEN /\ Goto(p, "push")
                         /\ UNCHANGED err
                    ELSE /\ Goto(p, "finish")
                         /\ err' = [err EXCEPT ![p] = "ConfigureDynamically"]
    /\ UNCHANGED <<shared, cfg, oldcfg, content, outcome, pre>>

\* Mutant of Push: the retry budget is off by one (>= instead of >).
Push_OffByOne(p) ==
    /\ ~crashed
    /\ UNCHANGED outside
    /\ pc[p] = "push"
    /\ \E ok \in BOOLEAN :
         /\ Logged(p, <<"ConfigureDynamically">>)
         /\ IF ok
            THEN /\ Goto(p, "finish")
                 /\ UNCHANGED <<err, retriesRemaining, hash>>
            ELSE /\ retriesRemaining' = [retriesRemaining EXCEPT ![p] = @ - 1]
                 /\ UNCHANGED hash
                 /\ IF retriesRemaining[p] - 1 >= 0
                    THEN /\ Goto(p, "push")
                         /\ UNCHANGED err
                    ELSE /\ Goto(p, "sendError")
                         /\ err' = [err EXCEPT ![p] = "ConfigureDynamically"]
    /\ UNCHANGED <<shared, cfg, oldcfg, content, outcome, pre>>

\* lines 398-411: one attempt of wait.ExponentialBackoff.  The callback
\* returns (true, nil) on success, (false, nil) while retries remain and
\* (false, err) on the last failure, which ends the loop with that error.
\* When the callback returns (false, nil) and the steps of the backoff are
\* used up, ExponentialBackoff returns its own wait.ErrWaitTimeout.
Push(p) ==
    /\ ~crashed
    /\ UNCHANGED outside
    /\ pc[p] = "push"
    /\ \E ok \in BOOLEAN :
         /\ Logged(p, <<"ConfigureDynamically">>)
         /\ IF ok
            THEN /\ Goto(p, "finish")
                 /\ UNCHANGED <<err, retriesRemaining, hash>>
            ELSE /\ retriesRemaining' = [retriesRemaining EXCEPT ![p] = @ - 1]
                 /\ UNCHANGED hash
                 /\ IF retriesRemaining[p] - 1 > 0
                    THEN IF StepsLeft(p) - 1 > 0
                         THEN /\ Goto(p, "push")
                              /\ UNCHANGED err
                         ELSE /\ Goto(p, "sendError")
                              /\ err' = [err EXCEPT ![p] = "ErrWaitTimeout"]
                    ELSE /\ Goto(p, "sendError")
                         /\ err' = [err EXCEPT ![p] = "ConfigureDynamically"]
    /\ UNCHANGED <<shared, cfg, oldcfg, content, outcome, pre>>

\* Mutant of SendError: the snapshot is recorded although the push failed.
SendError_RecordsSnapshot(p) ==
    /\ ~crashed
    /\ UNCHANGED outside
    /\ pc[p] = "sendError"
    /\ receiving    \* EventCh <- msg blocks until the message is received
    /\ Logged(p, <<"Event(Error,RELOAD)">>)
    /\ templateConfig' = cfg[p]
    /\ Return(p, "DynamicPushFailed")
    /\ UNCHANGED <<configureLock, cfgFile, certFile, dhFile, crashed,
                   cfg, oldcfg, content, err, retriesRemaining, hash, pre>>

\* lines 412-416: the dynamic reconfiguration failed; the event is sent and
\* the function returns.
SendError(p) ==
    /\ ~crashed
    /\ UNCHANGED outside
    /\ pc[p] = "sendError"
    /\ receiving    \* EventCh <- msg blocks until the message is received
    /\ Logged(p, <<"Event(Error,RELOAD)">>)
    /\ Return(p, "DynamicPushFailed")
    /\ UNCHANGED <<shared, cfg, oldcfg, content, err, retriesRemaining, hash, pre>>

\* lines 418-424: metrics of removed objects, and n.templateConfig = cfg.
Finish(p) ==
    /\ ~crashed
    /\ UNCHANGED outside
    /\ pc[p] = "finish"
    /\ Logged(p, <<"RemoveMetrics">>)
    /\ templateConfig' = cfg[p]
    /\ Return(p, "Success")
    /\ UNCHANGED <<configureLock, cfgFile, certFile, dhFile, crashed,
                   cfg, oldcfg, content, err, retriesRemaining, hash, pre>>

\* Mutant of Unlock: the function returns without releasing the lock.
Unlock_NoRelease(p) ==
    /\ ~crashed
    /\ UNCHANGED outside
    /\ pc[p] = "ret"
    /\ pc' = [pc EXCEPT ![p] = "idle"]
    /\ cfg' = [cfg EXCEPT ![p] = <<>>]
    /\ oldcfg' = [oldcfg EXCEPT ![p] = EmptyConfiguration]
    /\ content' = [content EXCEPT ![p] = <<>>]
    /\ err' = [err EXCEPT ![p] = ""]
    /\ retriesRemaining' = [retriesRemaining EXCEPT ![p] = 0]
    /\ hash' = [hash EXCEPT ![p] = 0]
    /\ outcome' = [outcome EXCEPT ![p] = ""]
    /\ log' = [log EXCEPT ![p] = <<>>]
    /\ pre' = [pre EXCEPT ![p] = NoPre]
    /\ UNCHANGED <<configureLock, templateConfig, cfgFile, certFile, dhFile, crashed>>

\* Mutant of Unlock: after a failed push the function returns and the push is
\* retried in the background.
Unlock_RetriesInBackground(p) ==
    /\ ~crashed
    /\ UNCHANGED outside
    /\ pc[p] = "ret"
    /\ configureLock' = FALSE
    /\ IF outcome[p] = "DynamicPushFailed"
       THEN /\ pc' = [pc EXCEPT ![p] = "push"]
            /\ retriesRemaining' = [retriesRemaining EXCEPT ![p] = 1]
            /\ UNCHANGED hash
            /\ err' = [err EXCEPT ![p] = ""]
            /\ log' = [log EXCEPT ![p] = <<>>]
            /\ UNCHANGED <<cfg, oldcfg, content, outcome, pre>>
       ELSE /\ pc' = [pc EXCEPT ![p] = "idle"]
            /\ cfg' = [cfg EXCEPT ![p] = <<>>]
            /\ oldcfg' = [oldcfg EXCEPT ![p] = EmptyConfiguration]
            /\ content' = [content EXCEPT ![p] = <<>>]
            /\ err' = [err EXCEPT ![p] = ""]
            /\ retriesRemaining' = [retriesRemaining EXCEPT ![p] = 0]
            /\ hash' = [hash EXCEPT ![p] = 0]
            /\ outcome' = [outcome EXCEPT ![p] = ""]
            /\ log' = [log EXCEPT ![p] = <<>>]
            /\ pre' = [pre EXCEPT ![p] = NoPre]
    /\ UNCHANGED <<templateConfig, cfgFile, certFile, dhFile, crashed>>

\* line 310 (deferred) at the return of fullReconfiguration, line 426.
Unlock(p) ==
    /\ ~crashed
    /\ UNCHANGED outside
    /\ pc[p] = "ret"
    /\ configureLock' = FALSE
    /\ pc' = [pc EXCEPT ![p] = "idle"]
    /\ cfg' = [cfg EXCEPT ![p] = <<>>]
    /\ oldcfg' = [oldcfg EXCEPT ![p] = EmptyConfiguration]
    /\ content' = [content EXCEPT ![p] = <<>>]
    /\ err' = [err EXCEPT ![p] = ""]
    /\ retriesRemaining' = [retriesRemaining EXCEPT ![p] = 0]
    /\ hash' = [hash EXCEPT ![p] = 0]
    /\ outcome' = [outcome EXCEPT ![p] = ""]
    /\ log' = [log EXCEPT ![p] = <<>>]
    /\ pre' = [pre EXCEPT ![p] = NoPre]
    /\ UNCHANGED <<templateConfig, cfgFile, certFile, dhFile, crashed>>

\* ----------------------------------------------------------- specification
\* The steps of fullReconfiguration after the caller has arrived.
Step(p) ==
    \/ Lock(p)
    \/ CheckStale(p)
    \/ SyncCert(p)
    \/ SyncDHParam(p)
    \/ Decide(p)
    \/ Render(p)
    \/ TestTemplate(p)
    \/ WriteCfgFile(p)
    \/ Reload(p)
    \/ UpdateFailed(p)
    \/ SendWarning(p)
    \/ Reloaded(p)
    \/ SendNormal(p)
    \/ FirstSync(p)
    \/ Push(p)
    \/ SendError(p)
    \/ Finish(p)
    \/ Unlock(p)

\* Producers submit snapshots that differ in their routing part.
Next == \E p \in Procs : SyncIngress(p, RoutingSnapshots) \/ Step(p)

Spec == Init /\ [][Next]_vars

\* Producers submit snapshots that differ in their TLS material.
NextTls == \E p \in Procs : SyncIngress(p, TlsSnapshots) \/ Step(p)

SpecTls == Init /\ [][NextTls]_vars

\* Scheduling: a goroutine that can take its next step takes it (every
\* collaborator call returns), and sync.Mutex hands the lock to a waiting
\* caller, so a caller that can lock again and again eventually does.
Fairness == \A p \in Procs : WF_vars(Step(p)) /\ SF_vars(Lock(p))

SpecFair == Spec /\ Fairness

\* The consumer of n.GRPCClient.EventCh stops receiving.
ConsumerStops ==
    /\ ~crashed
    /\ receiving
    /\ receiving' = FALSE
    /\ UNCHANGED <<shared, locals, scriptVars>>

\* Reconciliations whose event sink may stop at any moment.
NextSink ==
    \/ ConsumerStops
    \/ \E p \in Procs : SyncIngress(p, RoutingSnapshots) \/ Step(p)

SpecSink == Init /\ [][NextSink]_vars /\ Fairness

\* ------------------------------------------- balancing-mode updater script
balancingModeRATE == "RATE"
balancingModeUTIL == "UTILIZATION"
\* The instance group main finds (the first one named k8s-ig--*) and the
\* temporary one the script creates.
instanceGroupName == "k8s-ig--cluster"
instanceGroupTemp == "k8s-ig--migrate"

balancingModeInverse(m) ==
    CASE m = balancingModeRATE -> balancingModeUTIL
      [] m = balancingModeUTIL -> balancingModeRATE
      [] OTHER -> ""

\* The link is kept as its path segments below the API root.
createInstanceGroupLink(zone, igName) ==
    <<"projects", "projectID", "zones", zone, "instanceGroups", igName>>

\* Mutant of SetBackendsArgs: step 4 keeps the original groups, in the old
\* mode.
SetBackendsArgs_Step4KeepsOriginal(st) ==
    CASE st = "s2" -> [orig |-> TRUE, origMode |-> balancingModeInverse(targetBalancingMode),
                       temp |-> TRUE, tempMode |-> balancingModeInverse(targetBalancingMode)]
      [] st = "s4" -> [orig |-> TRUE, origMode |-> balancingModeInverse(targetBalancingMode),
                       temp |-> TRUE, tempMode |-> balancingModeInverse(targetBalancingMode)]
      [] st = "s5" -> [orig |-> TRUE, origMode |-> targetBalancingMode,
                       temp |-> TRUE, tempMode |-> balancingModeInverse(targetBalancingMode)]
      [] st = "s7" -> [orig |-> TRUE, origMode |-> targetBalancingMode,
                       temp |-> FALSE, tempMode |-> ""]

\* The arguments updateMultipleBackends passes to setBackendsTo in steps 2,
\* 4, 5 and 7.
SetBackendsArgs(st) ==
    CASE st = "s2" -> [orig |-> TRUE, origMode |-> balancingModeInverse(targetBalancingMode),
                       temp |-> TRUE, tempMode |-> balancingModeInverse(targetBalancingMode)]
      [] st = "s4" -> [orig |-> FALSE, origMode |-> "",
                       temp |-> TRUE, tempMode |-> balancingModeInverse(targetBalancingMode)]
      [] st = "s5" -> [orig |-> TRUE, origMode |-> targetBalancingMode,
                       temp |-> TRUE, tempMode |-> balancingModeInverse(targetBalancingMode)]
      [] st = "s7" -> [orig |-> TRUE, origMode |-> targetBalancingMode,
                       temp |-> FALSE, tempMode |-> ""]

\* setBackendsTo, lines 1544-1564: the backends one backend service gets.
Union(a) ==
    {[Group |-> createInstanceGroupLink(z, instanceGroupName),
      BalancingMode |-> a.origMode] : z \in IF a.orig THEN Zones ELSE {}}
    \cup
    {[Group |-> createInstanceGroupLink(z, instanceGroupTemp),
      BalancingMode |-> a.tempMode] : z \in IF a.temp THEN Zones ELSE {}}

\* What follows each step of updateMultipleBackends.
StepAfter(st) ==
    CASE st = "s1" -> "s2" [] st = "s2" -> "s3" [] st = "s3" -> "s4"
      [] st = "s4" -> "s5" [] st = "s5" -> "s6" [] st = "s6" -> "s7"
      [] st = "s7" -> "s8" [] st = "s8" -> "done"

\* A call migrateInstances(fromIG, toIG) about to look at its first instance.
MigrateFrom(fromIG, toIG) ==
    [from |-> fromIG, to |-> toIG, idx |-> 1, phase |-> "remove", removed |-> "",
     done |-> [k \in 1..Len(Instances) |-> 0]]

\* The loop of the current step has ended: the script enters the next step.
Enter(st) ==
    /\ step' = st
    /\ pending' = CASE st \in {"s2", "s4", "s5", "s7"} -> BackendServiceNames
                    [] st = "s8" -> Zones
                    [] OTHER -> {}
    /\ migrate' = CASE st = "s3" -> MigrateFrom(instanceGroupName, instanceGroupTemp)
                    [] st = "s6" -> MigrateFrom(instanceGroupTemp, instanceGroupName)
                    [] st \in {"s4", "s7"} ->
                         [MigrateIdle EXCEPT !.done =
                            [migrate.done EXCEPT ![migrate.idx] = @ + 1]]
                    [] OTHER -> MigrateIdle

\* The script stays in the loop of its current step.
Stay(rest) ==
    /\ step' = step
    /\ pending' = rest
    /\ migrate' = migrate

\* panic(err): the script ends where it is.
Panic ==
    /\ step' = "panicked"
    /\ UNCHANGED <<pending, migrate>>

\* One zone of the loop just handled.
Advance(rest) == IF rest = {} THEN Enter(StepAfter(step)) ELSE Stay(rest)

\* Step 1, lines 1486-1504: one iteration of the loop over igs (a Go map:
\* any order). Get finds the temporary group or Insert creates it; an error
\* of Insert or of waitForZoneOp panics.
CreateTempIG(z) ==
    /\ step = "s1"
    /\ z \in pending
    /\ \/ /\ z \in tempIGs
          /\ UNCHANGED tempIGs
          /\ Advance(pending \ {z})
       \/ /\ z \notin tempIGs
          /\ tempIGs' = tempIGs \cup {z}
          /\ Advance(pending \ {z})
       \/ /\ z \notin tempIGs
          /\ \E created \in BOOLEAN :
                tempIGs' = IF created THEN tempIGs \cup {z} ELSE tempIGs
          /\ Panic
    /\ UNCHANGED <<targetBalancingMode, backendServices, members, fnArgs, fnResult>>
    /\ UNCHANGED <<shared, locals, receiving>>

\* setBackendsTo, lines 1543-1575: one iteration of the loop over the
\* backend services (in the order BackendServices.List returned them). An
\* error of Update or of waitForGlobalOp panics.
UpdateBackendService(b) ==
    /\ step \in {"s2", "s4", "s5", "s7"}
    /\ b \in pending
    /\ \/ /\ backendServices' = [backendServices EXCEPT ![b] = Union(SetBackendsArgs(step))]
          /\ Advance(pending \ {b})
       \/ /\ \E applied \in BOOLEAN :
                backendServices' = IF applied
                    THEN [backendServices EXCEPT ![b] = Union(SetBackendsArgs(step))]
                    ELSE backendServices
          /\ Panic
    /\ UNCHANGED <<targetBalancingMode, tempIGs, members, fnArgs, fnResult>>
    /\ UNCHANGED <<shared, locals, receiving>>

\* migrateInstances, lines 1612-1622: RemoveInstances for the current
\* instance. The call fails ("error"), or the operation is waited for and
\* succeeds ("ok") or the wait fails ("waitFailed": the operation failed, or
\* it is still running when the poll gives up). Every outcome is only
\* printed, and the function goes on to AddInstances.
RemoveInstances ==
    /\ step \in {"s3", "s6"}
    /\ migrate.phase = "remove"
    /\ \E r \in {"ok", "error", "waitFailed"} :
        /\ \E gone \in BOOLEAN :
            /\ r = "ok" => gone
            /\ r = "error" => ~gone
            /\ members' = [members EXCEPT ![migrate.idx] =
                            IF gone THEN @ \ {migrate.from} ELSE @]
        /\ migrate' = [migrate EXCEPT !.phase = "add", !.removed = r]
    /\ UNCHANGED <<step, pending>>
    /\ UNCHANGED <<targetBalancingMode, backendServices, tempIGs, fnArgs, fnResult>>
    /\ UNCHANGED <<shared, locals, receiving>>

\* migrateInstances, lines 1624-1636: AddInstances for the current instance.
\* memberAlreadyExists and every other error are only printed; then the
\* loop goes to the next instance, and after the last one the function
\* returns nil.
AddInstances ==
    /\ step \in {"s3", "s6"}
    /\ migrate.phase = "add"
    /\ \E r \in {"ok", "memberAlreadyExists", "error", "waitFailed"} :
        /\ r = "memberAlreadyExists" => migrate.to \in members[migrate.idx]
        /\ r = "ok" => migrate.to \notin members[migrate.idx]
        /\ \E added \in BOOLEAN :
            /\ r = "ok" => added
            /\ r \in {"memberAlreadyExists", "error"} => ~added
            /\ members' = [members EXCEPT ![migrate.idx] =
                            IF added THEN @ \cup {migrate.to} ELSE @]
    /\ IF migrate.idx = Len(Instances)
       THEN Enter(StepAfter(step))
       ELSE /\ migrate' = [migrate EXCEPT !.idx = @ + 1, !.phase = "remove",
                              !.done[migrate.idx] = @ + 1]
            /\ UNCHANGED <<step, pending>>
    /\ UNCHANGED <<targetBalancingMode, backendServices, tempIGs, fnArgs, fnResult>>
    /\ UNCHANGED <<shared, locals, receiving>>

\* Step 8, lines 1527-1538: one iteration of the loop over igs. Errors of
\* Delete and of waitForZoneOp are only printed.
DeleteTempIG(z) ==
    /\ step = "s8"
    /\ z \in pending
    /\ \E deleted \in BOOLEAN :
        tempIGs' = IF deleted THEN tempIGs \ {z} ELSE tempIGs
    /\ Advance(pending \ {z})
    /\ UNCHANGED <<targetBalancingMode, backendServices, members, fnArgs, fnResult>>
    /\ UNCHANGED <<shared, locals, receiving>>

\* updateMultipleBackends is called: the target mode is RATE or UTILIZATION
\* (main panics otherwise), every backend service points to the original
\* instance groups in the other mode, every instance is in the original
\* group of its zone, and temporary groups may be left from an earlier run.
InitMigrate ==
    /\ ConfigurerIdle(<<ZeroTemplateConfig>>)
    /\ targetBalancingMode \in {balancingModeRATE, balancingModeUTIL}
    /\ backendServices \in
         { [b \in BackendServiceNames |->
              {[Group |-> createInstanceGroupLink(z, instanceGroupName),
                BalancingMode |-> m] : z \in Zones}] :
           m \in {balancingModeRATE, balancingModeUTIL} \ {targetBalancingMode} }
    /\ step = "s1"
    /\ pending = Zones
    /\ tempIGs \in SUBSET Zones
    /\ members = [k \in 1..Len(Instances) |-> {instanceGroupName}]
    /\ migrate = MigrateIdle
    /\ fnArgs = <<>>
    /\ fnResult = <<>>

NextMigrate ==
    \/ \E z \in Zones : CreateTempIG(z)
    \/ \E b \in BackendServiceNames : UpdateBackendService(b)
    \/ RemoveInstances
    \/ AddInstances
    \/ \E z \in Zones : DeleteTempIG(z)

SpecMigrate == InitMigrate /\ [][NextMigrate]_vars

\* ------------------------------------------------------- cors annotations
\* A string is the sequence of its symbols; a symbol is one separator
\* character or a run of letters or of digits.
MaxLen == 4

Letters == {"a", "http", "s",
            "GET", "PUT", "POST", "DELETE", "PATCH", "OPTIONS",
            "DNT", "X", "CustomHeader", "Keep", "Alive", "User", "Agent",
            "Requested", "With", "If", "Modified", "Since", "Cache", "Control",
            "Content", "Type", "Authorization"}
Digits == {"1"}
\* \s
Whitespace == {" "}

defaultCorsMethods ==
    <<"GET", ",", " ", "PUT", ",", " ", "POST", ",", " ", "DELETE", ",", " ",
      "PATCH", ",", " ", "OPTIONS">>
defaultCorsHeaders ==
    <<"DNT", ",", "X", "-", "CustomHeader", ",", "Keep", "-", "Alive", ",",
      "User", "-", "Agent", ",", "X", "-", "Requested", "-", "With", ",",
      "If", "-", "Modified", "-", "Since", ",", "Cache", "-", "Control", ",",
      "Content", "-", "Type", ",", "Authorization">>

\* s without its first n symbols.
Drop(s, n) == SubSeq(s, n + 1, Len(s))

\* (:[0-9]+)?$ : nothing, or a colon and digits up to the end.
MatchesPort(s) ==
    \/ s = <<>>
    \/ /\ Len(s) >= 2
       /\ s[1] = ":"
       /\ \A k \in 2..Len(s) : s[k] \in Digits

\* [A-Za-z0-9\-\.]*(:[0-9]+)?$
MatchesHostPort(s) ==
    \E j \in 0..Len(s) :
        /\ \A k \in 1..j : s[k] \in Letters \cup Digits \cup {"-", "."}
        /\ MatchesPort(Drop(s, j))

\* corsOriginRegex: ^(https?://[A-Za-z0-9\-\.]*(:[0-9]+)?|\*)?$
MatchesOrigin(s) ==
    \/ s = <<>>
    \/ s = <<"*">>
    \/ /\ Len(s) >= 2
       /\ SubSeq(s, 1, 2) = <<"http", "://">>
       /\ MatchesHostPort(Drop(s, 2))
    \/ /\ Len(s) >= 3
       /\ SubSeq(s, 1, 3) = <<"http", "s", "://">>
       /\ MatchesHostPort(Drop(s, 3))

\* ([word]+,?\s?)+$ from position i of s: a run of word symbols, perhaps a
\* comma, perhaps a white space, and then the end or the same again.
RECURSIVE MatchesList(_, _, _)
MatchesList(s, i, word) ==
    \E j \in i..Len(s) :
        /\ \A k \in i..j : s[k] \in word
        /\ \E c \in 0..1 :
            /\ c = 1 => (j + 1 <= Len(s) /\ s[j + 1] = ",")
            /\ \E w \in 0..1 :
                /\ w = 1 => (j + c + 1 <= Len(s) /\ s[j + c + 1] \in Whitespace)
                /\ \/ j + c + w = Len(s)
                   \/ MatchesList(s, j + c + w + 1, word)

\* corsMethodsRegex: ^([A-Za-z]+,?\s?)+$
MatchesMethods(s) == MatchesList(s, 1, Letters)

\* corsHeadersRegex: ^([A-Za-z0-9\-\_]+,?\s?)+$
MatchesHeaders(s) == MatchesList(s, 1, Letters \cup Digits \cup {"-", "_"})

\* All strings of at most n symbols of the alphabet.
RECURSIVE StringsUpTo(_, _)
StringsUpTo(alphabet, n) ==
    IF n = 0 THEN {<<>>}
    ELSE LET shorter == StringsUpTo(alphabet, n - 1)
         IN  shorter \cup {Append(t, c) : t \in shorter, c \in alphabet}

\* What parser.GetBoolAnnotation returns: the value and no error, or an
\* error (the annotation is missing, or its value is not a boolean) and a
\* value the caller must not use.
BoolLookups ==
    [val : BOOLEAN, err : {"nil", "missing", "invalid"}]

\* What parser.GetStringAnnotation returns for annotation values over the
\* alphabet: the value and no error, or an error and a value not to be used.
StringLookups(alphabet) ==
    [val : StringsUpTo(alphabet, MaxLen), err : {"nil"}]
    \cup [val : {<<>>, <<"$">>}, err : {"missing"}]

Missing == [val |-> <<>>, err |-> "missing"]
Unset == [val |-> FALSE, err |-> "missing"]

\* The annotations of the ingresses Parse is called with: the two booleans
\* in every combination, and each of the three strings through every value
\* over an alphabet that has the symbols of its pattern and one ("$") of
\* none.
Ingresses ==
    [enabled : BoolLookups, origin : {Missing}, headers : {Missing},
     methods : {Missing, [val |-> <<"GET", "$">>, err |-> "nil"]},
     credentials : BoolLookups]
    \cup
    [enabled : {Unset},
     origin : StringLookups({"http", "s", "://", "a", ":", "1", "*", "$"}),
     headers : {Missing}, methods : {Missing}, credentials : {Unset}]
    \cup
    [enabled : {Unset}, origin : {Missing},
     headers : StringLookups({"X", "-", "1", ",", " ", "$"}),
     methods : {Missing}, credentials : {Unset}]
    \cup
    [enabled : {Unset}, origin : {Missing}, headers : {Missing},
     methods : StringLookups({"GET", ",", " ", "$"}),
     credentials : {Unset}]

\* Mutant of Parse: the methods are not checked against corsMethodsRegex.
Parse_MethodsUnchecked(ing) ==
    [config |->
       [CorsEnabled |-> IF ing.enabled.err # "nil" THEN FALSE ELSE ing.enabled.val,
        CorsAllowOrigin |->
            IF \/ ing.origin.err # "nil"
               \/ ing.origin.val = <<>>
               \/ ~MatchesOrigin(ing.origin.val)
            THEN <<"*">> ELSE ing.origin.val,
        CorsAllowHeaders |->
            IF \/ ing.headers.err # "nil"
               \/ ing.headers.val = <<>>
               \/ ~MatchesHeaders(ing.headers.val)
            THEN defaultCorsHeaders ELSE ing.headers.val,
        CorsAllowMethods |->
            IF \/ ing.methods.err # "nil"
               \/ ing.methods.val = <<>>
            THEN defaultCorsMethods ELSE ing.methods.val,
        CorsAllowCredentials |->
            IF ing.credentials.err # "nil" THEN TRUE ELSE ing.credentials.val],
     err |-> "nil"]

\* cors.Parse, lines 97-129.
Parse(ing) ==
    [config |->
       [CorsEnabled |-> IF ing.enabled.err # "nil" THEN FALSE ELSE ing.enabled.val,
        CorsAllowOrigin |->
            IF \/ ing.origin.err # "nil"
               \/ ing.origin.val = <<>>
               \/ ~MatchesOrigin(ing.origin.val)
            THEN <<"*">> ELSE ing.origin.val,
        CorsAllowHeaders |->
            IF \/ ing.headers.err # "nil"
               \/ ing.headers.val = <<>>
               \/ ~MatchesHeaders(ing.headers.val)
            THEN defaultCorsHeaders ELSE ing.headers.val,
        CorsAllowMethods |->
            IF \/ ing.methods.err # "nil"
               \/ ing.methods.val = <<>>
               \/ ~MatchesMethods(ing.methods.val)
            THEN defaultCorsMethods ELSE ing.methods.val,
        CorsAllowCredentials |->
            IF ing.credentials.err # "nil" THEN TRUE ELSE ing.credentials.val],
     err |-> "nil"]

\* The annotation parser is called for one ingress.
InitCors ==
    /\ ConfigurerIdle(<<ZeroTemplateConfig>>)
    /\ UpdaterIdle
    /\ fnArgs \in {<<ing>> : ing \in Ingresses}
    /\ fnResult = <<>>

\* Parse returns.
CallParse ==
    /\ fnArgs # <<>>
    /\ fnResult = <<>>
    /\ fnResult' = <<Parse(fnArgs[1])>>
    /\ UNCHANGED <<fnArgs, step, targetBalancingMode, backendServices, pending,
                   tempIGs, members, migrate>>
    /\ UNCHANGED <<shared, locals, receiving>>

NextCors == CallParse

SpecCors == InitCors /\ [][NextCors]_vars

\* --------------------------------------------------------- CorsConfig.Equal
\* A *CorsConfig is nil or the address of a CorsConfig on the heap.
nil == "nil"
Addresses == {"&x", "&y", "&z"}
Pointers == {nil} \cup Addresses

\* CorsConfig values: one, and those that differ from it in one field.
CorsConfigs ==
    LET base == [CorsEnabled |-> TRUE, CorsAllowOrigin |-> <<"*">>,
                 CorsAllowMethods |-> defaultCorsMethods,
                 CorsAllowHeaders |-> defaultCorsHeaders,
                 CorsAllowCredentials |-> TRUE]
    IN  {base,
         [base EXCEPT !.CorsEnabled = FALSE],
         [base EXCEPT !.CorsAllowOrigin = <<"http", "://", "a">>],
         [base EXCEPT !.CorsAllowMethods = <<"GET">>],
         [base EXCEPT !.CorsAllowHeaders = <<"X">>],
         [base EXCEPT !.CorsAllowCredentials = FALSE]}

Heaps == [Addresses -> CorsConfigs]

\* Mutant of Equal: CorsEnabled is not compared.
Equal_IgnoresEnabled(heap, c1, c2) ==
    IF c1 = c2 THEN TRUE
    ELSE IF c1 = nil \/ c2 = nil THEN FALSE
    ELSE IF heap[c1].CorsAllowCredentials # heap[c2].CorsAllowCredentials THEN FALSE
    ELSE IF heap[c1].CorsAllowHeaders # heap[c2].CorsAllowHeaders THEN FALSE
    ELSE IF heap[c1].CorsAllowMethods # heap[c2].CorsAllowMethods THEN FALSE
    ELSE IF heap[c1].CorsAllowOrigin # heap[c2].CorsAllowOrigin THEN FALSE
    ELSE TRUE

\* (c1 *CorsConfig) Equal(c2 *CorsConfig), lines 68-93.
Equal(heap, c1, c2) ==
    IF c1 = c2 THEN TRUE
    ELSE IF c1 = nil \/ c2 = nil THEN FALSE
    ELSE IF heap[c1].CorsAllowCredentials # heap[c2].CorsAllowCredentials THEN FALSE
    ELSE IF heap[c1].CorsAllowHeaders # heap[c2].CorsAllowHeaders THEN FALSE
    ELSE IF heap[c1].CorsAllowMethods # heap[c2].CorsAllowMethods THEN FALSE
    ELSE IF heap[c1].CorsAllowOrigin # heap[c2].CorsAllowOrigin THEN FALSE
    ELSE IF heap[c1].CorsEnabled # heap[c2].CorsEnabled THEN FALSE
    ELSE TRUE

\* Three pointers into a heap are about to be compared.
InitEqual ==
    /\ ConfigurerIdle(<<ZeroTemplateConfig>>)
    /\ UpdaterIdle
    /\ fnArgs \in {<<a>> : a \in [heap : Heaps, c1 : Pointers, c2 : Pointers, c3 : Pointers]}
    /\ fnResult = <<>>

\* The calls c1.Equal(c2), c2.Equal(c1), c2.Equal(c3), c1.Equal(c3) and
\* c1.Equal(c1) return; Equal assigns to nothing, so the heap is as before.
CallEqual ==
    /\ fnArgs # <<>>
    /\ fnResult = <<>>
    /\ LET a == fnArgs[1]
       IN  fnResult' = << [c1c2 |-> Equal(a.heap, a.c1, a.c2),
                           c2c1 |-> Equal(a.heap, a.c2, a.c1),
                           c2c3 |-> Equal(a.heap, a.c2, a.c3),
                           c1c3 |-> Equal(a.heap, a.c1, a.c3),
                           c1c1 |-> Equal(a.heap, a.c1, a.c1),
                           heap |-> a.heap] >>
    /\ UNCHANGED <<fnArgs, step, targetBalancingMode, backendServices, pending,
                   tempIGs, members, migrate>>
    /\ UNCHANGED <<shared, locals, receiving>>

NextEqual == CallEqual

SpecEqual == InitEqual /\ [][NextEqual]_vars

\* ---------------------------------------------------------- getResourceName
\* Links and resource types are sequences of characters here.
LinkChars == {"/", "z", "a"}
ResourceTypes == {<<"z">>, <<"a">>, <<"z", "z">>}

\* strings.Split(str, sep) for a separator of one character: the pieces
\* between the separators, one more than there are separators.
RECURSIVE Split(_, _)
Split(str, sep) ==
    IF \A k \in 1..Len(str) : str[k] # sep
    THEN <<str>>
    ELSE LET k == CHOOSE k \in 1..Len(str) :
                    /\ str[k] = sep
                    /\ \A j \in 1..(k - 1) : str[j] # sep
         IN  <<SubSeq(str, 1, k - 1)>> \o Split(SubSeq(str, k + 1, Len(str)), sep)

\* The loop of lines 1651-1657 from the i-th piece on (counted from 1, so
\* that the code's i + 1 <= len(s) reads i <= Len(s) and s[i+1] is the piece
\* after the i-th). An index past the end panics.
RECURSIVE ScanFrom(_, _, _)
ScanFrom(s, i, resourceType) ==
    IF i > Len(s)
    THEN [status |-> "ok", value |-> <<>>]
    ELSE IF s[i] = resourceType /\ i <= Len(s)
         THEN IF i + 1 <= Len(s)
              THEN [status |-> "ok", value |-> s[i + 1]]
              ELSE [status |-> "panic", value |-> <<>>]
         ELSE ScanFrom(s, i + 1, resourceType)

\* getResourceName, lines 1648-1659 (and 1309-1320).
getResourceName(link, resourceType) ==
    ScanFrom(Split(link, "/"), 1, resourceType)

\* getResourceName is about to be called.
InitResourceName ==
    /\ ConfigurerIdle(<<ZeroTemplateConfig>>)
    /\ UpdaterIdle
    /\ fnArgs \in {<<a>> : a \in [link : StringsUpTo(LinkChars, MaxLen),
                                  resourceType : ResourceTypes]}
    /\ fnResult = <<>>

\* The call returns, or panics.
CallGetResourceName ==
    /\ fnArgs # <<>>
    /\ fnResult = <<>>
    /\ fnResult' = <<getResourceName(fnArgs[1].link, fnArgs[1].resourceType)>>
    /\ UNCHANGED <<fnArgs, step, targetBalancingMode, backendServices, pending,
                   tempIGs, members, migrate>>
    /\ UNCHANGED <<shared, locals, receiving>>

NextResourceName == CallGetResourceName

SpecResourceName == InitResourceName /\ [][NextResourceName]_vars

\* ------------------------------------------------------------- properties
\* The caller is between Lock and Unlock.
InCS(p) == pc[p] \notin {"idle", "lock", "panic"}

\* The caller has made the collaborator call e in this reconciliation.
Has(p, e) == \E i \in 1..Len(log[p]) : log[p][i] = e

Count(p, e) == Cardinality({i \in 1..Len(log[p]) : log[p][i] = e})

\* What the caller found when it took the lock.
Pre(p) == pre[p][1]

\* The caller has passed the staleness check and the TLS material sync.
PastDecide(p) ==
    /\ pc[p] \notin {"idle", "lock", "check", "cert", "dh", "decide", "panic"}
    /\ outcome[p] \notin {"Stale", "CertificateWriteFailed", "DHParamWriteFailed"}

\* The snapshot of the caller has the source checksum of the last-applied
\* snapshot and the differ reports it dynamic-eligible.
NoReloadNeeded(p) ==
    /\ Pre(p).templateConfig # NilTemplateConfig
    /\ Cfg(p).Checksum = Pre(p).templateConfig[1].Checksum
    /\ IsDynamicConfigurationEnough(configFromTemplate(cfg[p]),
                                    configFromTemplate(Pre(p).templateConfig))

\* C1: at most one caller at a time is between acquiring and releasing
\* configureLock, so the collaborator calls of two reconciliations never
\* interleave.
MutualExclusion ==
    \A p, q \in Procs :
        (p # q) => /\ ~(InCS(p) /\ InCS(q))
                   /\ ~(log[p] # <<>> /\ log[q] # <<>>)

\* A caller is writing the artifact while another one waits for the lock.
MutualExclusionWitness ==
    \E p, q \in Procs : p # q /\ pc[q] = "lock" /\ Has(p, "WriteFile")

\* C2: when the dry run rejects the rendered artifact, the live artifact is
\* what it was when the reconciliation began, no reload command is run and the
\* last-applied snapshot is unchanged.
ValidationFailureNonDestructive ==
    \A p \in Procs :
        err[p] = "testTemplate" =>
            /\ cfgFile = Pre(p).cfgFile
            /\ ~Has(p, "WriteFile")
            /\ ~Has(p, "ExecCommand(-s reload)")
            /\ ~Has(p, "ConfigureDynamically")
            /\ templateConfig = Pre(p).templateConfig

\* A reconciliation returns after the dry run rejected its artifact, while the
\* live artifact is one written by an earlier reconciliation.
ValidationFailureWitness ==
    \E p \in Procs :
        /\ pc[p] = "ret"
        /\ err[p] = "testTemplate"
        /\ cfgFile.GeneratedTime > 0

\* C3: reconciling a snapshot whose generation is not greater than that of the
\* last-applied snapshot returns at once: no file is written, no reload, push
\* or event happens, and the last-applied snapshot stays.
StaleSnapshotIsNoOp ==
    \A p \in Procs :
        ( /\ pc[p] \notin {"idle", "lock", "check", "panic"}
          /\ Pre(p).templateConfig # NilTemplateConfig
          /\ Cfg(p).GeneratedTime <= Pre(p).templateConfig[1].GeneratedTime )
        => /\ pc[p] = "ret"
           /\ outcome[p] = "Stale"
           /\ \A i \in 1..Len(log[p]) : log[p][i] \in {"SetSSLExpireTime", "SetSSLInfo"}
           /\ Snapshot = Pre(p)

\* A snapshot is rejected as stale after another one was applied with a reload.
StaleSnapshotWitness ==
    \E p \in Procs :
        /\ pc[p] = "ret"
        /\ outcome[p] = "Stale"
        /\ GenOf(templateConfig) > 0
        /\ cfgFile.GeneratedTime > 0

\* C4: the generation of the last-applied snapshot never decreases, and it
\* strictly increases whenever the last-applied snapshot is replaced.
GenerationMonotonic ==
    [][ /\ GenOf(templateConfig') >= GenOf(templateConfig)
        /\ \A p \in Procs :
             (pc[p] = "finish" /\ pc'[p] = "ret")
                => GenOf(templateConfig') > GenOf(templateConfig) ]_vars

\* The last-applied snapshot has been replaced a second time.
GenerationMonotonicWitness ==
    \E p \in Procs :
        /\ outcome[p] = "Success"
        /\ GenOf(Pre(p).templateConfig) > 0
        /\ GenOf(templateConfig) > GenOf(Pre(p).templateConfig)

\* C5 as stated: once the artifact holds content rendered from generation g, no
\* content rendered from a lower generation is written over it.
ArtifactGenerationNeverDecreases ==
    [][ \A p \in Procs :
          (pc[p] = "write" /\ pc'[p] = "reload" /\ cfgFile.complete)
             => cfgFile'.GeneratedTime >= cfgFile.GeneratedTime ]_vars

\* C5 (amended): the artifact is only ever overwritten with content rendered
\* from a snapshot whose generation is greater than that of the last-applied
\* snapshot; so once generation g is last-applied, no content of generation
\* g or lower is written.
ArtifactNewerThanLastApplied ==
    [][ \A p \in Procs :
          (pc[p] = "write" /\ cfgFile' # cfgFile)
             => /\ cfgFile'.GeneratedTime = Cfg(p).GeneratedTime
                /\ cfgFile'.GeneratedTime > GenOf(templateConfig) ]_vars

\* The artifact has been overwritten after some snapshot was recorded as
\* last-applied.
ArtifactNewerWitness ==
    \E p \in Procs :
        /\ pc[p] = "reload"
        /\ GenOf(templateConfig) > 0
        /\ cfgFile.GeneratedTime > GenOf(templateConfig)

TlsWriteFailureAborts ==
    \A p \in Procs :
        err[p] \in {"StoreSSLCertOnDisk", "AddOrUpdateDHParam"} =>
            /\ pc[p] = "ret"
            /\ outcome[p] \in {"CertificateWriteFailed", "DHParamWriteFailed"}
            /\ cfgFile = Pre(p).cfgFile
            /\ ~Has(p, "t.Write")
            /\ ~Has(p, "WriteFile")
            /\ ~Has(p, "ExecCommand(-s reload)")
            /\ ~Has(p, "ConfigureDynamically")
            /\ templateConfig = Pre(p).templateConfig

\* The DH parameter write failed after the default certificate was written.
TlsWriteFailureWitness ==
    \E p \in Procs :
        /\ err[p] = "AddOrUpdateDHParam"
        /\ Has(p, "StoreSSLCertOnDisk")
        /\ certFile # Pre(p).certFile

\* C8: a non-stale snapshot that keeps the source checksum and is
\* dynamic-eligible (only the backends differ) is reconciled without rendering
\* or writing the artifact and without a reload: after the TLS material sync
\* the next collaborator call is the dynamic push.
BackendOnlyChangeIsDynamic ==
    \A p \in Procs :
        (PastDecide(p) /\ NoReloadNeeded(p)) =>
            /\ pc[p] \in {"firstsync", "push", "sendError", "finish", "ret"}
            /\ cfgFile = Pre(p).cfgFile
            /\ \A i \in 1..Len(log[p]) :
                 log[p][i] \notin {"t.Write", "testTemplate", "WriteFile",
                                   "ExecCommand(-s reload)", "Event(Normal,RELOAD)",
                                   "Event(Warning,RELOAD)"}
            /\ pc[p] \in {"sendError", "finish", "ret"} => Has(p, "ConfigureDynamically")

\* A snapshot that changed only the backends of the last-applied one has been
\* applied.
BackendOnlyChangeWitness ==
    \E p \in Procs :
        /\ outcome[p] = "Success"
        /\ NoReloadNeeded(p)
        /\ GenOf(Pre(p).templateConfig) > 0
        /\ Cfg(p).Backends # Pre(p).templateConfig[1].Backends

\* C9 as stated: with an unchanged source checksum and no structural change
\* the reconciliation makes no file write (TLS material included) and no
\* reload or push.
NoChangeIsCompleteNoOp ==
    \A p \in Procs :
        (PastDecide(p) /\ NoReloadNeeded(p)) =>
            /\ \A i \in 1..Len(log[p]) : log[p][i] \in {"SetSSLExpireTime", "SetSSLInfo"}
            /\ Snapshot = Pre(p)

\* C9 (amended): with an unchanged source checksum and no structural change
\* the reconciliation skips only the artifact and the reload: the TLS material
\* sync has run before (and wrote the files it had to), and the dynamic push
\* is still made.
NoChangeSkipsOnlyReload ==
    \A p \in Procs :
        (outcome[p] \in {"Success", "DynamicPushFailed"} /\ NoReloadNeeded(p)) =>
            /\ cfgFile = Pre(p).cfgFile
            /\ ~Has(p, "WriteFile")
            /\ ~Has(p, "ExecCommand(-s reload)")
            /\ Has(p, "ConfigureDynamically")
            /\ NeedsCertWrite(Pre(p).templateConfig, Cfg(p))
                 => (Has(p, "StoreSSLCertOnDisk") /\ certFile = Cfg(p).DefaultSSLCertificate)
            /\ Cfg(p).DHParam => (Has(p, "AddOrUpdateDHParam") /\ dhFile)

\* A reconciliation without reload wrote the default certificate and pushed.
NoChangeWitness ==
    \E p \in Procs :
        /\ outcome[p] = "Success"
        /\ NoReloadNeeded(p)
        /\ certFile # Pre(p).certFile
        /\ Has(p, "ConfigureDynamically")

\* C10 as stated: after the dynamic push failed on all attempts the snapshot
\* is recorded as last-applied.
PushFailureRecordsSnapshot ==
    \A p \in Procs :
        outcome[p] = "DynamicPushFailed" => templateConfig = cfg[p]

\* C10 (amended): after the dynamic push failed on all attempts the
\* reconciliation is not reverted (a reloaded artifact stays in place), but the
\* snapshot is not recorded: last-applied is still the previous snapshot.
PushFailureKeepsLastApplied ==
    \A p \in Procs :
        outcome[p] = "DynamicPushFailed" =>
            /\ templateConfig = Pre(p).templateConfig
            /\ templateConfig # cfg[p]
            /\ Count(p, "ConfigureDynamically") = 1 + DynamicConfigurationRetries
            /\ Has(p, "ExecCommand(-s reload)") => cfgFile = RenderTemplate(Cfg(p))

\* The push failed on all attempts after the artifact was replaced.
PushFailureWitness ==
    \E p \in Procs :
        /\ outcome[p] = "DynamicPushFailed"
        /\ cfgFile # Pre(p).cfgFile

\* C11: the last-applied snapshot changes only in the last step of a
\* reconciliation in which no step returned an error (TLS material written
\* where it had to be, reload done where it was required, push accepted), and
\* it becomes exactly the snapshot passed to that reconciliation.
LastAppliedOnlyOnSuccess ==
    [][ templateConfig' # templateConfig =>
          \E p \in Procs :
             /\ pc[p] = "finish"
             /\ pc'[p] = "ret"
             /\ outcome'[p] = "Success"
             /\ templateConfig' = cfg[p]
             /\ err[p] = ""
             /\ Has(p, "ConfigureDynamically")
             /\ NeedsCertWrite(Pre(p).templateConfig, Cfg(p))
                  => (Has(p, "StoreSSLCertOnDisk") /\ certFile = Cfg(p).DefaultSSLCertificate)
             /\ Cfg(p).DHParam => (Has(p, "AddOrUpdateDHParam") /\ dhFile)
             /\ NeedsReload(Pre(p).templateConfig, Cfg(p), oldcfg[p])
                  => /\ Has(p, "ExecCommand(-s reload)")
                     /\ Has(p, "ConfigSuccess(true)")
                     /\ cfgFile = RenderTemplate(Cfg(p)) ]_vars

\* The last-applied snapshot was replaced by a reconciliation that wrote the
\* certificate and reloaded.
LastAppliedWitness ==
    \E p \in Procs :
        /\ outcome[p] = "Success"
        /\ templateConfig = cfg[p]
        /\ templateConfig # Pre(p).templateConfig
        /\ Has(p, "StoreSSLCertOnDisk")
        /\ Has(p, "ExecCommand(-s reload)")

\* C12: a reconciliation makes at most DynamicConfigurationRetries + 1 push
\* attempts, exactly that many when all of them fail, and none after the
\* first one that is accepted.
BoundedRetries ==
    [][ \A p \in Procs :
          /\ Count(p, "ConfigureDynamically")' <= 1 + DynamicConfigurationRetries
          /\ outcome'[p] = "DynamicPushFailed" =>
                Count(p, "ConfigureDynamically")' = 1 + DynamicConfigurationRetries
          /\ (pc[p] = "push" /\ pc'[p] = "sendError") =>
                Count(p, "ConfigureDynamically")' = 1 + DynamicConfigurationRetries
          /\ (pc[p] \in {"finish", "sendError", "ret"} /\ pc'[p] # "idle") =>
                Count(p, "ConfigureDynamically")' = Count(p, "ConfigureDynamically") ]_vars

\* The push was accepted at the last permitted attempt.
BoundedRetriesWitness ==
    \E p \in Procs :
        /\ pc[p] = "finish"
        /\ Count(p, "ConfigureDynamically") = 1 + DynamicConfigurationRetries

\* C13: when the reload command fails after the artifact was written, the
\* reconciliation ends there: the reload-error counter is incremented once, one
\* Warning event of reason RELOAD is sent, no push is attempted and the
\* last-applied snapshot stays as it was.
ReloadFailureIsFatal ==
    \A p \in Procs :
        err[p] = "reload" =>
            /\ pc[p] \in {"updateFailed", "sendWarning", "ret"}
            /\ Has(p, "WriteFile")
            /\ cfgFile = content[p][1]
            /\ ~Has(p, "ConfigureDynamically")
            /\ templateConfig = Pre(p).templateConfig
            /\ pc[p] \in {"sendWarning", "ret"} => Count(p, "IncReloadErrorCount") = 1
            /\ pc[p] = "ret" =>
                 /\ outcome[p] = "ReloadFailed"
                 /\ Count(p, "Event(Warning,RELOAD)") = 1
                 /\ ~Has(p, "Event(Normal,RELOAD)")

\* A reconciliation returned after its reload command failed.
ReloadFailureWitness ==
    \E p \in Procs :
        /\ pc[p] = "ret"
        /\ err[p] = "reload"
        /\ cfgFile = RenderTemplate(Cfg(p))
        /\ cfgFile # Pre(p).cfgFile

\* Position of the first call e in the log of the caller (0: none).
First(p, e) ==
    IF Has(p, e)
    THEN CHOOSE i \in 1..Len(log[p]) :
            /\ log[p][i] = e
            /\ \A j \in 1..(i - 1) : log[p][j] # e
    ELSE 0

\* C14: the live artifact is overwritten only with content whose dry run has
\* just succeeded, the reload command is run only after that overwrite has
\* succeeded, and the dry run leaves the live artifact alone.
FullReloadOrdering ==
    [][ \A p \in Procs :
          /\ (pc[p] = "test" /\ pc'[p] # "test") =>
                /\ cfgFile' = cfgFile
                /\ content'[p] = content[p]
          /\ (pc[p] = "write" /\ pc'[p] # "write") =>
                /\ log[p][Len(log[p])] = "testTemplate"
                /\ err[p] = ""
                /\ content[p] = <<RenderTemplate(Cfg(p))>>
                /\ cfgFile' \in {content[p][1], cfgFile,
                                 [content[p][1] EXCEPT !.complete = FALSE]}
          /\ cfgFile' # cfgFile => (pc[p] = "write" \/ \E q \in Procs : pc[q] = "write")
          /\ (pc[p] = "reload" /\ pc'[p] # "reload") =>
                /\ log[p][Len(log[p])] = "WriteFile"
                /\ err[p] = ""
                /\ cfgFile = content[p][1] ]_vars

\* The reload command has been run on a newly written artifact.
FullReloadOrderingWitness ==
    \E p \in Procs :
        /\ Has(p, "ExecCommand(-s reload)")
        /\ First(p, "testTemplate") < First(p, "WriteFile")
        /\ First(p, "WriteFile") < First(p, "ExecCommand(-s reload)")
        /\ cfgFile # Pre(p).cfgFile

\* C15: in a reconciliation that needs a reload, the first push attempt comes
\* after the artifact write and a successful reload command, and a
\* reconciliation whose reload succeeded makes at least one push attempt.
ReloadThenPush ==
    \A p \in Procs :
        (PastDecide(p) /\ ~NoReloadNeeded(p)) =>
            /\ Has(p, "ConfigureDynamically") =>
                 /\ 0 < First(p, "WriteFile")
                 /\ First(p, "WriteFile") < First(p, "ExecCommand(-s reload)")
                 /\ First(p, "ExecCommand(-s reload)") < First(p, "ConfigSuccess(true)")
                 /\ First(p, "ConfigSuccess(true)") < First(p, "ConfigureDynamically")
                 /\ cfgFile = RenderTemplate(Cfg(p))
            /\ (pc[p] = "ret" /\ Has(p, "ConfigSuccess(true)")) =>
                 Has(p, "ConfigureDynamically")

\* A snapshot with another server list was reloaded and then pushed.
ReloadThenPushWitness ==
    \E p \in Procs :
        /\ pc[p] = "ret"
        /\ Cfg(p).Servers # Pre(p).templateConfig[1].Servers
        /\ Has(p, "ExecCommand(-s reload)")
        /\ Has(p, "ConfigureDynamically")

\* The caller has passed the settle delay of lines 382-388.
PastFirstSync(p) ==
    \/ pc[p] \in {"push", "sendError", "finish"}
    \/ pc[p] = "ret" /\ outcome[p] \in {"Success", "DynamicPushFailed"}

IsEvent(e) ==
    e \in {"Event(Warning,RELOAD)", "Event(Normal,RELOAD)", "Event(Error,RELOAD)"}

\* First argument of newEventMessage: apiv1.EventTypeWarning (370),
\* apiv1.EventTypeNormal (379), the literal "Error" (414).
EventKind(e) ==
    CASE e = "Event(Warning,RELOAD)" -> "Warning"
      [] e = "Event(Normal,RELOAD)"  -> "Normal"
      [] e = "Event(Error,RELOAD)"   -> "Error"

\* Second argument of newEventMessage.
EventReason(e) == "RELOAD"

\* The events the caller has sent in this reconciliation, in order.
Events(p) == SelectSeq(log[p], IsEvent)

\* C17: every event sent to the event sink has kind Normal or Warning and
\* reason RELOAD.
EventKindNormalOrWarning ==
    \A p \in Procs :
        \A i \in 1..Len(Events(p)) :
            /\ EventKind(Events(p)[i]) \in {"Normal", "Warning"}
            /\ EventReason(Events(p)[i]) = "RELOAD"

RemoveMetricsOnceOnSuccess ==
    [][ \A p \in Procs :
          /\ Count(p, "RemoveMetrics")' <= 1
          /\ Count(p, "RemoveMetrics")' > Count(p, "RemoveMetrics") =>
                /\ pc[p] = "finish"
                /\ err[p] = ""
                /\ outcome'[p] = "Success"
                /\ oldcfg[p] = configFromTemplate(Pre(p).templateConfig)
                /\ templateConfig = Pre(p).templateConfig
                /\ templateConfig' = cfg[p]
          /\ (pc[p] # "ret" /\ pc'[p] = "ret") =>
                (Has(p, "RemoveMetrics")' <=> outcome'[p] = "Success") ]_vars

\* A successful reconciliation removed the servers of the last-applied
\* snapshot and reported it.
RemoveMetricsWitness ==
    \E p \in Procs :
        /\ outcome[p] = "Success"
        /\ Count(p, "RemoveMetrics") = 1
        /\ Pre(p).templateConfig[1].Servers = 1
        /\ Cfg(p).Servers = 0

\* C20: the default-certificate file is rewritten in a reconciliation if and
\* only if the certificate of its snapshot differs from the content last
\* written to the file.
CertRewrittenIffContentDiffers ==
    [][ \A p \in Procs :
          (pc[p] = "cert" /\ pc'[p] # "cert") =>
              (Has(p, "StoreSSLCertOnDisk")' <=>
                   Cfg(p).DefaultSSLCertificate # certFile) ]_vars

\* C21: whoever reads the live artifact path at any moment finds a complete
\* artifact, never a truncated or partially written one.
ArtifactAlwaysComplete == cfgFile.complete

\* C22: every started reconciliation runs to its end and releases the lock,
\* and every caller waiting for the lock gets it.
EveryReconciliationTerminates ==
    \A p \in Procs : (pc[p] # "idle") ~> (pc[p] = "idle")

\* C24: no reconciliation faults, whatever the last-applied reference is when
\* it starts.
NoReconciliationFaults ==
    /\ ~crashed
    /\ \A p \in Procs : pc[p] # "panic"

\* C23: a caller that is about to push, or has pushed in its reconciliation,
\* holds the lock, and no other caller is between Lock and Unlock: the push
\* attempts of two snapshots never interleave and none happens after the
\* release.
PushOnlyUnderLock ==
    \A p \in Procs :
        (pc[p] = "push" \/ Has(p, "ConfigureDynamically")) =>
            /\ configureLock
            /\ InCS(p)
            /\ \A q \in Procs \ {p} :
                  /\ ~InCS(q)
                  /\ ~Has(q, "ConfigureDynamically")

\* A caller retries its push while another caller waits for the lock.
PushOnlyUnderLockWitness ==
    \E p \in Procs :
        /\ pc[p] = "push"
        /\ Has(p, "ConfigureDynamically")
        /\ \E q \in Procs \ {p} : pc[q] = "lock"

\* The snapshot of the scenario: generation 1, no servers, no backends.
EmptySnapshot == TemplateConfig(1, 0, 0, 0, 0, FALSE)

\* C25: on an orchestrator that has applied nothing, the reconciliation of
\* the empty snapshot of generation 1, when no collaborator fails, ends in
\* success without a write of the artifact and without a reload, and
\* last-applied is that snapshot.
FreshEmptySnapshotSucceeds ==
    \A p \in Procs :
        ( /\ pc[p] \in {"ret", "panic"}
          /\ GenOf(Pre(p).templateConfig) = 0
          /\ Cfg(p) = EmptySnapshot
          /\ err[p] = "" ) =>
            /\ outcome[p] = "Success"
            /\ ~Has(p, "WriteFile")
            /\ ~Has(p, "ExecCommand(-s reload)")
            /\ cfgFile = Pre(p).cfgFile
            /\ templateConfig = cfg[p]

\* The outcomes of a reconciliation that failed at one of its steps.
FailureOutcomes ==
    {"CertificateWriteFailed", "DHParamWriteFailed", "ReloadFailed", "DynamicPushFailed"}

StaleLeavesMetricsAlone ==
    \A p \in Procs :
        outcome[p] = "Stale" =>
            /\ ~Has(p, "SetSSLExpireTime")
            /\ ~Has(p, "SetSSLInfo")

\* C29: the error a failure event of the push reports is the one the last
\* permitted attempt returned: it is set by that attempt, no earlier attempt
\* sets it, and it is never the timeout error of the backoff.
PushFailureReportsLastError ==
    \A p \in Procs :
        /\ pc[p] = "push" => err[p] = ""
        /\ err[p] = "ConfigureDynamically" =>
              Count(p, "ConfigureDynamically") = 1 + DynamicConfigurationRetries
        /\ (pc[p] = "sendError" \/ Has(p, "Event(Error,RELOAD)")) =>
              /\ err[p] = "ConfigureDynamically"
              /\ StepsLeft(p) = 0

\* The failure event was sent after the last attempt had failed.
PushFailureReportsWitness ==
    \E p \in Procs :
        /\ Has(p, "Event(Error,RELOAD)")
        /\ err[p] = "ConfigureDynamically"
        /\ Count(p, "ConfigureDynamically") = 1 + DynamicConfigurationRetries

\* The caller has left the reload branch of lines 356-380, or skipped it.
ReloadBranchDone(p) ==
    \/ pc[p] \in {"sendWarning", "sendNormal", "firstsync", "push", "sendError", "finish"}
    \/ pc[p] = "ret" /\ outcome[p] \in {"ReloadFailed", "DynamicPushFailed", "Success"}

\* C30: a reconciliation that takes the reload branch increments exactly one
\* of the reload counter and the reload-error counter, once, the reload
\* counter exactly when render, dry run, write and reload command all
\* succeeded, and reports ConfigSuccess once, with the fingerprint of the
\* routing configuration of its snapshot and the matching flag; a
\* reconciliation that skips the branch touches neither counter.
ReloadMetricsExact ==
    \A p \in Procs :
        /\ Count(p, "IncReloadCount") + Count(p, "IncReloadErrorCount") <= 1
        /\ Count(p, "ConfigSuccess(true)") = Count(p, "IncReloadCount")
        /\ Count(p, "ConfigSuccess(false)") = Count(p, "IncReloadErrorCount")
        /\ ReloadBranchDone(p) =>
             /\ Has(p, "t.Write") <=>
                   Count(p, "IncReloadCount") + Count(p, "IncReloadErrorCount") = 1
             /\ Has(p, "t.Write") <=> ~NoReloadNeeded(p)
             /\ Has(p, "IncReloadCount") <=>
                   /\ Has(p, "ExecCommand(-s reload)")
                   /\ err[p] \notin {"t.Write", "testTemplate", "WriteFile", "reload"}
             /\ Has(p, "IncReloadErrorCount") <=>
                   err[p] \in {"t.Write", "testTemplate", "WriteFile", "reload"}
             /\ Has(p, "t.Write") => hash[p] = Hash(configFromTemplate(cfg[p]))
             /\ ~Has(p, "t.Write") => hash[p] = 0

\* One reconciliation counted a reload error after a failed dry run.
ReloadMetricsWitness ==
    \E p \in Procs :
        /\ pc[p] = "ret"
        /\ err[p] = "testTemplate"
        /\ Count(p, "IncReloadErrorCount") = 1
        /\ Count(p, "ConfigSuccess(false)") = 1
        /\ hash[p] = Hash(configFromTemplate(cfg[p]))

\* C31: a reconciliation that passes the staleness check with a source
\* checksum other than the last-applied one takes the reload branch even when
\* the differ finds the routing dynamic-eligible: it renders, and it reaches
\* the push only after dry run, write and reload command, with the artifact
\* rendered from its snapshot and carrying the new checksum.
ChecksumChangeForcesReload ==
    \A p \in Procs :
        (PastDecide(p) /\ Cfg(p).Checksum # Pre(p).templateConfig[1].Checksum) =>
            /\ pc[p] # "firstsync" \/ Has(p, "ConfigSuccess(true)")
            /\ pc[p] # "render" => Has(p, "t.Write")
            /\ (PastFirstSync(p) \/ pc[p] = "firstsync") =>
                 /\ Has(p, "testTemplate")
                 /\ Has(p, "WriteFile")
                 /\ Has(p, "ExecCommand(-s reload)")
                 /\ cfgFile = RenderTemplate(Cfg(p))
                 /\ cfgFile.Checksum = Cfg(p).Checksum
            /\ (pc[p] = "ret" /\ outcome[p] = "ReloadFailed") =>
                 err[p] \in {"t.Write", "testTemplate", "WriteFile", "reload"}

\* A dynamic-eligible snapshot with a new source checksum was reloaded and
\* applied.
ChecksumChangeWitness ==
    \E p \in Procs :
        /\ outcome[p] = "Success"
        /\ Cfg(p).Checksum # Pre(p).templateConfig[1].Checksum
        /\ IsDynamicConfigurationEnough(configFromTemplate(cfg[p]), oldcfg[p])
        /\ cfgFile.Checksum = Cfg(p).Checksum
        /\ cfgFile.Checksum # Pre(p).cfgFile.Checksum

\* The artifact was rendered from a snapshot with the source checksum and the
\* reload-relevant structure of the snapshot tc.
Agrees(file, tc) ==
    /\ tc # NilTemplateConfig
    /\ file.complete
    /\ file.Checksum = tc[1].Checksum
    /\ IsDynamicConfigurationEnough([Backends |-> tc[1].Backends, Servers |-> file.Servers],
                                    configFromTemplate(tc))

\* C32: when the last running reconciliation returns and a full reload has
\* succeeded in it, the live artifact agrees with the last-applied snapshot.
ArtifactAgreesWithLastApplied ==
    [][ \A p \in Procs :
          ( /\ pc[p] = "ret"
            /\ pc'[p] = "idle"
            /\ Has(p, "ConfigSuccess(true)")
            /\ \A q \in Procs : pc'[q] \in {"idle", "lock"} ) =>
              Agrees(cfgFile', templateConfig') ]_vars

\* C33: progress does not depend on the event sink: although the consumer of
\* the event channel may stop receiving, every caller that holds the lock
\* returns to idle, having released it (a panic of the process apart).
ReconciliationOutlivesEventSink ==
    \A p \in Procs : InCS(p) ~> (pc[p] = "idle" \/ crashed)


\* The backends of all backend services.
AllBackends == UNION {backendServices[b] : b \in BackendServiceNames}

\* C34: at every point of updateMultipleBackends all backends, across all
\* backend services, that reference the same instance group carry the same
\* balancing mode; and when the function has completed, every backend
\* service references only the original instance groups, in the target mode.
BalancingModesConsistent ==
    /\ \A x, y \in AllBackends : x.Group = y.Group => x.BalancingMode = y.BalancingMode
    /\ step = "done" =>
         \A b \in BackendServiceNames :
            backendServices[b] =
              {[Group |-> createInstanceGroupLink(z, instanceGroupName),
                BalancingMode |-> targetBalancingMode] : z \in Zones}

\* C34 witness: the function has completed and the backend services point
\* to the original groups in the target mode.
BalancingModeMigrated ==
    /\ step = "done"
    /\ \A x \in AllBackends :
          /\ x.BalancingMode = targetBalancingMode
          /\ x.Group[6] = instanceGroupName
    /\ AllBackends # {}

\* C35: in migrateInstances an instance is added to the destination group
\* only after its removal from the source group has completed successfully,
\* so that no instance is a member of both groups at once; and when the call
\* returns every instance has been processed exactly once.
AddOnlyAfterSuccessfulRemoval ==
    /\ migrate.phase = "add" => migrate.removed = "ok"
    /\ \A k \in 1..Len(Instances) :
          ~({instanceGroupName, instanceGroupTemp} \subseteq members[k])
    /\ step \in {"s4", "s7"} => \A k \in 1..Len(Instances) : migrate.done[k] = 1



\* The lookup found the annotation, its value is not empty and it is the
\* value returned.
Passed(lookup, returned) ==
    lookup.err = "nil" /\ lookup.val # <<>> /\ returned = lookup.val

\* C36: cors.Parse never returns an error; the origin, the headers and the
\* methods it returns are each a non-empty annotation value that matches its
\* pattern, or the fixed default; CorsEnabled is false and
\* CorsAllowCredentials is true when the annotation is missing or cannot be
\* parsed.
ParseReturnsValidatedOrDefault ==
    fnResult # <<>> =>
        LET ing == fnArgs[1]
            c   == fnResult[1].config
        IN  /\ fnResult[1].err = "nil"
            /\ \/ c.CorsAllowOrigin = <<"*">>
               \/ Passed(ing.origin, c.CorsAllowOrigin) /\ MatchesOrigin(c.CorsAllowOrigin)
            /\ \/ c.CorsAllowHeaders = defaultCorsHeaders
               \/ Passed(ing.headers, c.CorsAllowHeaders) /\ MatchesHeaders(c.CorsAllowHeaders)
            /\ \/ c.CorsAllowMethods = defaultCorsMethods
               \/ Passed(ing.methods, c.CorsAllowMethods) /\ MatchesMethods(c.CorsAllowMethods)
            /\ ing.enabled.err # "nil" => c.CorsEnabled = FALSE
            /\ ing.credentials.err # "nil" => c.CorsAllowCredentials = TRUE

\* C36 witness: Parse has returned for an ingress whose methods annotation
\* is set but does not match, and whose boolean annotations cannot be read.
ParseRejectedMethods ==
    /\ fnResult # <<>>
    /\ fnArgs[1].methods.err = "nil"
    /\ fnArgs[1].methods.val # <<>>
    /\ ~MatchesMethods(fnArgs[1].methods.val)
    /\ fnArgs[1].enabled.err = "invalid"
    /\ fnArgs[1].credentials.err = "missing"
    /\ fnResult[1].config.CorsAllowMethods = defaultCorsMethods



\* Both pointers are nil, or neither is and the five fields agree.
SameFields(heap, c1, c2) ==
    \/ c1 = nil /\ c2 = nil
    \/ /\ c1 # nil
       /\ c2 # nil
       /\ heap[c1].CorsEnabled = heap[c2].CorsEnabled
       /\ heap[c1].CorsAllowOrigin = heap[c2].CorsAllowOrigin
       /\ heap[c1].CorsAllowMethods = heap[c2].CorsAllowMethods
       /\ heap[c1].CorsAllowHeaders = heap[c2].CorsAllowHeaders
       /\ heap[c1].CorsAllowCredentials = heap[c2].CorsAllowCredentials

\* C37: Equal(c1, c2) is true exactly if both are nil or both are non-nil
\* with identical fields; it is reflexive, symmetric and transitive, and it
\* modifies neither argument.
EqualIsFieldEquivalence ==
    fnResult # <<>> =>
        LET a == fnArgs[1]
            r == fnResult[1]
        IN  /\ r.c1c2 = SameFields(a.heap, a.c1, a.c2)
            /\ r.c2c3 = SameFields(a.heap, a.c2, a.c3)
            /\ r.c1c1
            /\ r.c1c2 = r.c2c1
            /\ (r.c1c2 /\ r.c2c3) => r.c1c3
            /\ r.heap = a.heap

\* C37 witness: three different objects with the same fields were found
\* equal to each other.
EqualAcrossObjects ==
    /\ fnResult # <<>>
    /\ Cardinality({fnArgs[1].c1, fnArgs[1].c2, fnArgs[1].c3}) = Cardinality(Addresses)
    /\ nil \notin {fnArgs[1].c1, fnArgs[1].c2, fnArgs[1].c3}
    /\ fnResult[1].c1c2
    /\ fnResult[1].c2c3
    /\ fnResult[1].c1c3



\* The piece that follows the first piece equal to resourceType, or the
\* empty string if there is no such piece.
FollowingSegment(s, resourceType) ==
    LET hits == {i \in 1..Len(s) : s[i] = resourceType}
    IN  IF hits = {} THEN <<>>
        ELSE LET first == CHOOSE i \in hits : \A j \in hits : i <= j
             IN  IF first < Len(s) THEN s[first + 1] ELSE <<>>

\* C38: getResourceName returns the path segment that follows the first
\* segment equal to resourceType, and returns the empty string without
\* faulting when no segment follows, also when resourceType is the last
\* segment of the link.
GetResourceNameNeverFaults ==
    fnResult # <<>> =>
        /\ fnResult[1].status = "ok"
        /\ fnResult[1].value =
             FollowingSegment(Split(fnArgs[1].link, "/"), fnArgs[1].resourceType)


====
